---- MODULE Spec2Model ----
(***************************************************************************)
(* Document-classification runs of the repository: the four driver         *)
(* scripts (vision_doc_classifier.py = "azure", vision_doc_classifier_     *)
(* gemini = "gemini", parallel_vision_doc_classifier_gemini = "parallel",  *)
(* vision_doc_classifier_combined = "combined"), their API clients with    *)
(* the retry loop, the asyncio semaphores, the thread pool, the per-       *)
(* document result collection and the final summary.                       *)
(*                                                                         *)
(* Money is counted in nano-dollars (1e-9 $) so that the price table       *)
(* (0.000035 $ / 0.000070 $ per 1K tokens) stays integral.                 *)
(***************************************************************************)
EXTENDS Integers, Sequences, FiniteSets, TLC

\* ---------------------------------------------------------------- bounds
NumDocs == 2
\* longest response text, in tokens
MaxTextLen == 5
\* result files handed to the aggregation, and files classified in a run
MaxRuns == 3
NumFiles == 1
\* pages of a PDF, and the largest max_pages
MaxPages == 3
MaxConcurrent == 2

\* ------------------------------------------------------ program constants
\* `max_retries=2`: the default of every client and what every caller passes.
DefaultMaxRetries == 2
CharsPerToken == 4
ImageTokens == 1024
InputCost == 35
OutputCost == 70
MistralPageCost == 105000
DefaultMaxConcurrent == 10
DefaultMistralMaxConcurrent == 5

Scripts == {"azure", "gemini", "parallel", "combined"}
Clients == {"azure", "gemini", "mistral"}
Labels == {"INVOICE", "RECEIPT"}
NoClassification == "None"
UNKNOWN == "UNKNOWN"

VARIABLES
    script,                   \* which driver script runs
    rows,                     \* number of documents the run is given
    listed,                   \* the documents that have a row in the validation dataset
    ocr_engine,               \* "gemini" | "mistral" (combined script only)
    api_key_set,              \* the provider API key is in the environment
    validation_file_exists,   \* the validation dataset can be read
    prompt_template_exists,   \* prompt_template.txt can be read
    max_retries,              \* the max_retries every client call is given
    concurrency,              \* PARALLEL_MAX / the concurrency the user typed
    main_pc,                  \* position of the driver
    prompt_template,          \* "unset" | "file" | "default"
    max_concurrent,           \* client -> self.max_concurrent
    semaphore,                \* client -> free permits of its asyncio.Semaphore
    task_pc,                  \* doc -> position of its classification task
    client,                   \* doc -> client the task is calling
    retries,                  \* doc -> local `retries` of the running call
    reg,                      \* doc -> totals read by a worker thread, not yet written back
    task_result,              \* doc -> what the task's last client call returned
    ocr_done,                 \* docs whose Mistral OCR call returned pages
    api_attempts,             \* client -> provider attempts issued so far
    usage_history,            \* client -> self.usage_history
    total_tokens,             \* client -> self.total_tokens["total"]
    total_cost,               \* client -> self.total_cost
    collected,                \* docs whose outcome the driver has integrated
    results,                  \* the driver's `results` list
    successful_calls,
    failed_calls,
    summary,                  \* the final summary, once produced
    response_text,            \* label extraction: the response content, as tokens
    final_class,              \* label extraction: what the extraction yielded
    aggregator,               \* aggregation: "run_tests" | "aggregate_flash_lite"
    result_files,             \* aggregation: the result files, most recent first
    all_runs,                 \* aggregation: the data of the files that loaded
    aggregated_results,       \* aggregation: what the last call returned
    previous_results,         \* aggregation: what the call before it returned
    calls,                    \* aggregation: calls of aggregate_results so far
    pdf,                      \* rendering: the PDF file handed to the renderer
    max_pages,                \* rendering: the max_pages argument
    rendered,                 \* rendering: what convert_pdf_pages_to_images did
    wrapper,                  \* retry loop: the client method that is called
    attempt_pc,               \* retry loop: position of the call
    attempt_retries,          \* retry loop: its local `retries`
    errors,                   \* retry loop: error message of each failed attempt retried
    waits                     \* retry loop: seconds slept before each retry

vars == <<script, rows, listed, ocr_engine, api_key_set, validation_file_exists,
          prompt_template_exists, max_retries, concurrency, main_pc,
          prompt_template, max_concurrent, semaphore, task_pc, client, retries,
          reg, task_result, ocr_done, api_attempts, usage_history,
          total_tokens, total_cost, collected, results, successful_calls,
          failed_calls, summary, response_text, final_class, aggregator,
          result_files, all_runs, aggregated_results, previous_results, calls,
          pdf, max_pages, rendered, wrapper, attempt_pc, attempt_retries, errors,
          waits>>

config_vars == <<script, rows, listed, ocr_engine, api_key_set, validation_file_exists,
                 prompt_template_exists, max_retries, concurrency>>
client_vars == <<api_attempts, usage_history, total_tokens, total_cost>>
driver_vars == <<collected, results, successful_calls, failed_calls, summary>>
\* The inputs and outputs of the stand-alone functions (label extraction).
extract_vars == <<response_text, final_class>>
aggregate_vars ==
    <<aggregator, result_files, all_runs, aggregated_results, previous_results, calls>>
render_vars == <<pdf, max_pages, rendered>>
retry_vars == <<wrapper, attempt_pc, attempt_retries, errors, waits>>
tool_vars == <<extract_vars, aggregate_vars, render_vars, retry_vars>>

\* The documents of the run, and the most a run can have.
Docs == 1..rows
AllDocs == 1..(NumDocs + 1)

\* The validation dataset: one row (file -> expected classification) per document.
validation_data == [d \in listed |-> IF d % 2 = 1 THEN "INVOICE" ELSE "RECEIPT"]
\* `expected = validation_data.get(pdf_file, "UNKNOWN")` of the parallel script.
expected(d) == IF d \in DOMAIN validation_data THEN validation_data[d] ELSE UNKNOWN

\* -------------------------------------------------------------- scheduling
\* use_parallel of the combined script; the parallel script is always async.
UseAsync == script = "parallel" \/ (script = "combined" /\ concurrency > 1)
\* The Gemini script hands the documents to a ThreadPoolExecutor when concurrency > 1.
UseThreads == script = "gemini" /\ concurrency > 1
\* How many tasks can be running at once.
Workers == IF UseAsync THEN rows ELSE IF UseThreads THEN concurrency ELSE 1

FirstClient ==
    IF script = "azure" THEN "azure"
    ELSE IF script = "combined" /\ ocr_engine = "mistral" THEN "mistral"
    ELSE "gemini"

Ended(d) == task_pc[d] \in {"done", "cancelled"}
Running(d) == task_pc[d] \notin {"created", "done", "cancelled"}
\* Tasks inside the `async with semaphore` block of client c.
Holders(c) == {d \in Docs : UseAsync /\ client[d] = c /\ task_pc[d] \in {"calling", "sleeping"}}
\* Tasks with a provider call of client c in flight.
InFlight(c) == {d \in Docs : client[d] = c /\ task_pc[d] = "calling"}


\* ------------------------------------------------- token and cost estimates
\* Lengths of a document's prompt text and of the model's answer, in characters
\* (inputs of the estimate; the values are not multiples of 4 so that the floor shows).
InputTextLen(d) == 9 + 4 * d
OutputTextLen(d) == 6 + 4 * d
\* Pages rendered and sent as images (PAGES_NO).
PageImages(d) == 1

estimated_input_tokens(d) == (InputTextLen(d) \div CharsPerToken) + PageImages(d) * ImageTokens
estimated_output_tokens(d) == OutputTextLen(d) \div CharsPerToken
estimated_total_tokens(d) == estimated_input_tokens(d) + estimated_output_tokens(d)
\* (tokens / 1000) * price-per-1K, in nano-dollars.
CallCost(d) == estimated_input_tokens(d) * InputCost + estimated_output_tokens(d) * OutputCost
\* Mistral OCR: num_pages * (input_cost + output_cost).
OcrCost(d) == PageImages(d) * MistralPageCost

usage_record(tokens, cost, r) == [total_tokens |-> tokens, cost |-> cost, retries |-> r]
\* `self.usage_history.append(usage_record)`
RecordedNowhere(history, record) == history
Recorded(history, record) == Append(history, record)

\* sum(r["total_tokens"] for r in usage_history)
RECURSIVE SumTokens(_)
SumTokens(history) ==
    IF history = <<>> THEN 0 ELSE Head(history).total_tokens + SumTokens(Tail(history))

\* ------------------------------------------------------------- retry policy
\* `if retries == max_retries: return {"error": ...}` (>= in the async Gemini client).
RetriesExhaustedOffByOne(r, m) == r >= m + 1
RetriesExhausted(r, m) == r >= m
\* The parallel client: `retries += 1; if retries > max_retries: raise`.
RaisesAfterIncrementLate(r, m) == r + 1 > m + 1
RaisesAfterIncrement(r, m) == r + 1 > m

\* -------------------------------------------------------------- task results
TaskResult(kind, classification, cost, r, c, at) ==
    [kind |-> kind, classification |-> classification, cost |-> cost,
     retries |-> r, client |-> c, at |-> at]
Pending == TaskResult("pending", NoClassification, 0, 0, "gemini", "created")

\* Python truthiness of a predicted label (`if predicted:` / `if not predicted`).
Truthy(label) == label \notin {NoClassification, ""}

\* What the label extraction can yield for a response: the parallel script falls
\* back to UNKNOWN, the others leave `classification` at None.
Classifications ==
    IF script = "parallel" THEN Labels \cup {UNKNOWN} ELSE Labels \cup {NoClassification}

ResultEntryByPosition(d, classification, r, cost, error) ==
    [file |-> Len(results) + 1, classification |-> classification, retries |-> r,
     cost |-> cost, error |-> error]
ResultEntry(d, classification, r, cost, error) ==
    [file |-> d, classification |-> classification, retries |-> r, cost |-> cost,
     error |-> error]

\* ------------------------------------------------------------------ accuracy
Ratio(n, d) == [num |-> n, den |-> d]
Zero == Ratio(0, 1)

\* calculate_accuracy of the Azure, Gemini and combined scripts.
Scored(rs) ==
    SelectSeq(rs, LAMBDA r : Truthy(r.classification) /\ r.file \in DOMAIN validation_data)
calculate_accuracy(rs) ==
    LET total_count == Len(Scored(rs))
        correct_count ==
            Len(SelectSeq(Scored(rs), LAMBDA r : r.classification = validation_data[r.file]))
    IN [accuracy |-> IF total_count > 0 THEN Ratio(correct_count, total_count) ELSE Zero,
        correct_count |-> correct_count,
        total_count |-> total_count]

\* calculate_accuracy of the parallel script: r["predicted"] raises KeyError on an
\* error entry; the accuracy is a percentage.
parallel_raises(rs) == \E i \in 1..Len(rs) : rs[i].error
parallel_calculate_accuracy(rs) ==
    LET total == Len(rs)
        correct == Len(SelectSeq(rs, LAMBDA r : r.classification = expected(r.file)))
    IN [accuracy |-> IF total > 0 THEN Ratio(correct * 100, total) ELSE Zero,
        correct_count |-> correct,
        total_count |-> total]

NoSummary ==
    [accuracy |-> Zero, correct_count |-> 0, total_count |-> 0,
     completion_percentage |-> Zero, successful_calls |-> 0, failed_calls |-> 0,
     produced |-> FALSE]

\* ---------------------------------------------------------- label extraction
\* A response text is a sequence of tokens: "M" is the literal marker
\* "Final Classification:", "O" and "C" are the tags <classification> and
\* </classification>, "NL" is a newline, "SP" a blank, "a" a word character.
Alphabet == {"M", "O", "C", "NL", "SP", "a"}
Whitespace == {"NL", "SP"}
Texts == UNION {[1..n -> Alphabet] : n \in 0..MaxTextLen}

\* `t in s`
Contains(s, t) == \E i \in 1..Len(s) : s[i] = t
\* s.find(t) + 1, 0 when absent
IndexOf(s, t) == IF Contains(s, t) THEN CHOOSE i \in 1..Len(s) : s[i] = t /\ \A j \in 1..(i - 1) : s[j] # t ELSE 0
\* s.split(t)[0]
SplitFirst(s, t) == IF Contains(s, t) THEN SubSeq(s, 1, IndexOf(s, t) - 1) ELSE s
\* s.split(t)[1], for a text that holds t
SplitSecond(s, t) == SplitFirst(SubSeq(s, IndexOf(s, t) + 1, Len(s)), t)
\* s.strip()
RECURSIVE lstrip(_)
lstrip(s) == IF s # <<>> /\ Head(s) \in Whitespace THEN lstrip(Tail(s)) ELSE s
RECURSIVE rstrip(_)
rstrip(s) ==
    IF s # <<>> /\ s[Len(s)] \in Whitespace THEN rstrip(SubSeq(s, 1, Len(s) - 1)) ELSE s
strip(s) == rstrip(lstrip(s))

\* What an extraction yields: a label, None, or nothing yet.
Label(text) == [kind |-> "label", text |-> text]
None == [kind |-> "None", text |-> <<>>]
NotExtracted == [kind |-> "unset", text |-> <<>>]

\* The parallel script: the rest of the marker's line; without the marker the
\* regular expression (which needs the marker as well) finds nothing: UNKNOWN.
extract_parallel(text) ==
    IF Contains(strip(text), "M")
    THEN Label(strip(SplitFirst(SplitSecond(strip(text), "M"), "NL")))
    ELSE Label(<<UNKNOWN>>)
\* The Azure, Gemini and combined scripts: classification stays None unless the
\* marker stands inside a <classification> block.
classification_text(text) == SplitFirst(SplitSecond(text, "O"), "C")
extract_tagged_unknown(text) ==
    IF Contains(text, "O") /\ Contains(text, "C") /\ Contains(classification_text(text), "M")
    THEN Label(strip(SplitSecond(classification_text(text), "M")))
    ELSE Label(<<UNKNOWN>>)
extract_tagged(text) ==
    IF Contains(text, "O") /\ Contains(text, "C") /\ Contains(classification_text(text), "M")
    THEN Label(strip(SplitSecond(classification_text(text), "M")))
    ELSE None
extract_classification(text) ==
    IF script = "parallel" THEN extract_parallel(text) ELSE extract_tagged(text)

\* ------------------------------------------------------------- aggregation
Files == 1..NumFiles
Predictions == {"A", "B"}
\* The "summary" block of a result file, as the Gemini script writes it: accuracy
\* in hundredths, completion in percent, response time in seconds, cost in
\* nano-dollars.
Summaries ==
    {[accuracy |-> 100, completion_percentage |-> 100, average_response_time |-> 2,
      total_cost |-> 35, total_tokens |-> 1030],
     [accuracy |-> 50, completion_percentage |-> 80, average_response_time |-> 5,
      total_cost |-> 70, total_tokens |-> 2060]}
\* "detailed_results": the prediction of each file the run classified.
DetailedResults == UNION {[S -> Predictions] : S \in SUBSET Files}
RunData == [summary : Summaries, detailed_results : DetailedResults]
NoData == [summary |-> CHOOSE x \in Summaries : x.accuracy = 100,
           detailed_results |-> CHOOSE f \in DetailedResults : DOMAIN f = {}]
\* A result file: json.load gives its data or raises.
ResultFiles == [loads : {TRUE}, data : RunData] \cup {[loads |-> FALSE, data |-> NoData]}

\* `all_runs = []` at the start of every call.
KeptList(runs) == runs
FreshList(runs) == <<>>
\* The loop over result_files: all_runs.append(data) for each file that loads.
RECURSIVE Loaded(_, _)
Loaded(runs, files) ==
    IF files = <<>> THEN runs
    ELSE Loaded(IF Head(files).loads THEN Append(runs, Head(files).data) ELSE runs,
                Tail(files))

\* sum(values)
RECURSIVE Sum(_)
Sum(values) == IF values = <<>> THEN 0 ELSE Head(values) + Sum(Tail(values))
\* sum(values) / len(values) if values else 0
AverageUnguarded(values) == Ratio(Sum(values), Len(values))
Average(values) == IF values # <<>> THEN Ratio(Sum(values), Len(values)) ELSE Zero
Column(runs, field) == [i \in 1..Len(runs) |-> runs[i].summary[field]]

\* detailed_results_by_file[filename]: the file's predictions, in run order.
RECURSIVE ByFile(_, _)
ByFile(runs, f) ==
    IF runs = <<>> THEN <<>>
    ELSE IF f \in DOMAIN Head(runs).detailed_results
         THEN <<Head(runs).detailed_results[f]>> \o ByFile(Tail(runs), f)
         ELSE ByFile(Tail(runs), f)
\* predictions[pred]
Count(preds, p) == Cardinality({i \in 1..Len(preds) : preds[i] = p})
\* max(predictions.items(), key=count): the first-seen prediction of highest count.
first_prediction(preds) == preds[1]
last_most_common(preds) ==
    preds[CHOOSE i \in 1..Len(preds) :
            /\ \A j \in 1..Len(preds) : Count(preds, preds[j]) <= Count(preds, preds[i])
            /\ \A j \in (i + 1)..Len(preds) : Count(preds, preds[j]) < Count(preds, preds[i])]
most_common(preds) ==
    preds[CHOOSE i \in 1..Len(preds) :
            /\ \A j \in 1..Len(preds) : Count(preds, preds[j]) <= Count(preds, preds[i])
            /\ \A j \in 1..(i - 1) : Count(preds, preds[j]) < Count(preds, preds[i])]
consistency_by_file(runs) ==
    [f \in {g \in Files : ByFile(runs, g) # <<>>} |->
        [most_common_prediction |-> most_common(ByFile(runs, f)),
         consistency_percentage |->
             Ratio(Count(ByFile(runs, f), most_common(ByFile(runs, f))) * 100,
                   Len(ByFile(runs, f)))]]

NoAggregate == [returned |-> "None"]
Aggregated(runs) ==
    [returned |-> "aggregated_results",
     num_runs |-> Len(runs),
     average_accuracy |-> Average(Column(runs, "accuracy")),
     average_completion_percentage |-> Average(Column(runs, "completion_percentage")),
     average_response_time |-> Average(Column(runs, "average_response_time")),
     total_cost_all_runs |-> Sum(Column(runs, "total_cost")),
     average_cost_per_run |-> Average(Column(runs, "total_cost")),
     total_tokens_all_runs |-> Sum(Column(runs, "total_tokens")),
     average_tokens_per_run |-> Average(Column(runs, "total_tokens")),
     by_file |-> consistency_by_file(runs)]
NotCalled == [returned |-> "unset"]

AggregateIdle ==
    /\ aggregator = "run_tests"
    /\ result_files = <<>>
    /\ all_runs = <<>>
    /\ aggregated_results = NotCalled
    /\ previous_results = NotCalled
    /\ calls = 0

\* --------------------------------------------------------------- rendering
\* A PDF file: whether fitz.open succeeds, whether it is encrypted, its pages and
\* which of them can be rendered.
UnreadablePdf == [opens |-> FALSE, is_encrypted |-> FALSE, total_pages |-> 0, renders |-> <<>>]
Pdfs ==
    {UnreadablePdf} \cup
    UNION {[opens : {TRUE}, is_encrypted : BOOLEAN, total_pages : {n},
            renders : [1..n -> BOOLEAN]] : n \in 0..MaxPages}
Min(a, b) == IF a <= b THEN a ELSE b
\* The pages the renderer sets out to convert. Azure, Gemini, combined:
\* min(len(doc), max_pages); parallel: min(...) if max_pages else total_pages.
num_pages_unlimited(total_pages, limit) == total_pages
num_pages(total_pages, limit) ==
    IF script = "parallel" /\ limit = 0 THEN total_pages ELSE Min(total_pages, limit)
\* The encoded images of the pages in 1..n that render, in page order.
RECURSIVE images_of(_, _)
images_of(doc, n) ==
    IF n = 0 THEN <<>>
    ELSE IF doc.renders[n] THEN Append(images_of(doc, n - 1), n) ELSE images_of(doc, n - 1)
Returned(images) == [kind |-> "returned", images |-> images]
Raised == [kind |-> "raised", images |-> <<>>]
NotRendered == [kind |-> "unset", images |-> <<>>]
\* Azure, Gemini and combined: an encrypted or unreadable file gives [], a page
\* that fails is logged and left out.
convert_sync(doc, limit) ==
    IF ~doc.opens \/ doc.is_encrypted THEN Returned(<<>>)
    ELSE Returned(images_of(doc, num_pages(doc.total_pages, limit)))
\* Parallel: every exception is logged and raised again; there is no encryption
\* check, loading a page of an encrypted document raises.
convert_parallel(doc, limit) ==
    IF ~doc.opens THEN Raised
    ELSE IF \E n \in 1..num_pages(doc.total_pages, limit) : doc.is_encrypted \/ ~doc.renders[n]
    THEN Raised
    ELSE Returned(images_of(doc, num_pages(doc.total_pages, limit)))
convert_pdf_pages_to_images(doc, limit) ==
    IF script = "parallel" THEN convert_parallel(doc, limit) ELSE convert_sync(doc, limit)

\* ------------------------------------------------------------ retry delays
\* The client methods with a retry loop. The asynchronous ones of the combined
\* script are the only ones that look at the error message.
Wrappers ==
    {"azure", "gemini", "parallel", "combined_gemini", "combined_gemini_async",
     "combined_mistral", "combined_mistral_async"}
ErrorMessages == {"429", "Rate limit", "other"}
RECURSIVE Pow2(_)
Pow2(n) == IF n = 0 THEN 1 ELSE 2 * Pow2(n - 1)
\* Seconds slept before retry number r (`retries` after its increment) when the
\* failed attempt ended with error_msg; the parallel client does not sleep.
wait_time(w, r, error_msg) ==
    IF w = "combined_gemini_async"
    THEN (IF error_msg \in {"429", "Rate limit"} THEN Pow2(r) ELSE 2)
    ELSE IF w = "combined_mistral_async"
    THEN (IF error_msg = "429" THEN Pow2(r) ELSE 2)
    ELSE IF w = "parallel" THEN 0
    ELSE 2
RetryIdle ==
    /\ wrapper = "gemini"
    /\ attempt_pc = "idle"
    /\ attempt_retries = 0
    /\ errors = <<>>
    /\ waits = <<>>

RenderIdle == pdf = UnreadablePdf /\ max_pages = 0 /\ rendered = NotRendered

ExtractIdle == response_text = <<>> /\ final_class = NotExtracted
ToolsIdle == ExtractIdle /\ AggregateIdle /\ RenderIdle /\ RetryIdle

\* ------------------------------------------------------------------- start
Init ==
    /\ script \in Scripts
    /\ rows = NumDocs
    /\ listed \in (IF script = "parallel" THEN SUBSET Docs ELSE {Docs})
    /\ ocr_engine \in (IF script = "combined" THEN {"gemini", "mistral"} ELSE {"gemini"})
    /\ api_key_set \in BOOLEAN
    /\ validation_file_exists \in BOOLEAN
    /\ prompt_template_exists \in BOOLEAN
    /\ max_retries \in 0..DefaultMaxRetries
    /\ concurrency \in (IF script = "azure" THEN {1} ELSE 1..MaxConcurrent)
    /\ main_pc = "config"
    /\ prompt_template = "unset"
    /\ max_concurrent = [c \in Clients |-> 0]
    /\ semaphore = [c \in Clients |-> 0]
    /\ task_pc = [d \in AllDocs |-> "created"]
    /\ client = [d \in AllDocs |-> FirstClient]
    /\ retries = [d \in AllDocs |-> 0]
    /\ reg = [d \in AllDocs |-> [tokens |-> 0, cost |-> 0]]
    /\ task_result = [d \in AllDocs |-> Pending]
    /\ ocr_done = {}
    /\ api_attempts = [c \in Clients |-> 0]
    /\ usage_history = [c \in Clients |-> <<>>]
    /\ total_tokens = [c \in Clients |-> 0]
    /\ total_cost = [c \in Clients |-> 0]
    /\ collected = {}
    /\ results = <<>>
    /\ successful_calls = 0
    /\ failed_calls = 0
    /\ summary = NoSummary
    /\ ToolsIdle

\* ------------------------------------------------------------ configuration
\* Whether the start-up of the script gets as far as processing documents.
\* Every script raises or returns without a key or a validation dataset; a missing
\* prompt template ends the Azure, Gemini and combined scripts, while the parallel
\* script goes on with a built-in default prompt.
ConfigurationAcceptedIgnoringValidation ==
    /\ api_key_set
    /\ (script = "parallel" \/ prompt_template_exists)
ConfigurationAccepted ==
    /\ api_key_set
    /\ validation_file_exists
    /\ (script = "parallel" \/ prompt_template_exists)

\* self.max_concurrent of the clients the script constructs for its run.
ClientMaxConcurrent(c) ==
    IF script = "parallel" THEN (IF c = "gemini" THEN concurrency ELSE 0)
    ELSE IF script = "combined"
         THEN (IF c = "gemini"
               THEN (IF ocr_engine = "gemini" /\ concurrency > 1
                     THEN concurrency ELSE DefaultMaxConcurrent)
               ELSE IF c = "mistral" /\ ocr_engine = "mistral"
               THEN (IF concurrency > 1 THEN concurrency ELSE DefaultMistralMaxConcurrent)
               ELSE 0)
    ELSE 0

LoadConfiguration ==
    /\ main_pc = "config"
    /\ IF ConfigurationAccepted
       THEN /\ main_pc' = "running"
            /\ prompt_template' = IF prompt_template_exists THEN "file" ELSE "default"
            /\ max_concurrent' = [c \in Clients |-> ClientMaxConcurrent(c)]
            /\ semaphore' = [c \in Clients |-> ClientMaxConcurrent(c)]
       ELSE /\ main_pc' = "aborted"
            /\ UNCHANGED <<prompt_template, max_concurrent, semaphore>>
    /\ UNCHANGED <<tool_vars, config_vars, task_pc, client, retries, reg, task_result, ocr_done,
                   client_vars, driver_vars>>

\* ------------------------------------------------------------------- tasks
\* `async with self.semaphore`: a permit is free.
CanAcquireUnguarded(c) == TRUE
CanAcquire(c) == semaphore[c] > 0
\* The semaphore after leaving the `async with` block (sync clients have none).
NotReleased(c) == semaphore
PermitKept(c) == [semaphore EXCEPT ![c] = @]
Released(c) == IF UseAsync THEN [semaphore EXCEPT ![c] = @ + 1] ELSE semaphore

\* The semaphore when a call goes to sleep before a retry: the sleep is inside the
\* `async with` block, the permit stays with the call.
ReleasedDuringBackoff(c) == Released(c)
DuringBackoff(c) == semaphore

Issued(c) == [api_attempts EXCEPT ![c] = @ + 1]

\* A worker (coroutine, pool thread or the sequential loop) takes up document d:
\* existence and extension checks, PDF rendering, then the first client call.
StartTask(d) ==
    /\ main_pc = "running"
    /\ task_pc[d] = "created"
    /\ \A e \in Docs : e < d => task_pc[e] # "created"
    /\ Cardinality({e \in Docs : Running(e)}) < Workers
    /\ (~UseAsync /\ ~UseThreads) => \A e \in Docs : e < d => e \in collected
    /\ \E readable \in BOOLEAN :
         IF readable
         THEN /\ client' = [client EXCEPT ![d] = FirstClient]
              /\ retries' = [retries EXCEPT ![d] = 0]
              /\ task_pc' = [task_pc EXCEPT ![d] = IF UseAsync THEN "waiting" ELSE "calling"]
              /\ api_attempts' = IF UseAsync THEN api_attempts ELSE Issued(FirstClient)
              /\ UNCHANGED task_result
         ELSE /\ task_pc' = [task_pc EXCEPT ![d] = "done"]
              /\ task_result' =
                   [task_result EXCEPT
                      ![d] = TaskResult(IF script = "parallel" THEN "raised" ELSE "failed",
                                        NoClassification, 0, 0, FirstClient, "created")]
              /\ UNCHANGED <<client, retries, api_attempts>>
    /\ UNCHANGED <<tool_vars, config_vars, main_pc, prompt_template, max_concurrent, semaphore, reg,
                   ocr_done, usage_history, total_tokens, total_cost, driver_vars>>

\* Entering `async with semaphore` and issuing the first provider attempt.
Acquire(d) ==
    /\ main_pc = "running"
    /\ task_pc[d] = "waiting"
    /\ CanAcquire(client[d])
    /\ semaphore' = [semaphore EXCEPT ![client[d]] = @ - 1]
    /\ task_pc' = [task_pc EXCEPT ![d] = "calling"]
    /\ api_attempts' = Issued(client[d])
    /\ UNCHANGED <<tool_vars, config_vars, main_pc, prompt_template, max_concurrent, client, retries,
                   reg, task_result, ocr_done, usage_history, total_tokens, total_cost,
                   driver_vars>>

\* The provider answers. The client adds the estimate to its totals, appends one
\* usage record and returns; a Mistral OCR answer is followed by the Gemini call on
\* the extracted text. In a pool thread the `+=` on the shared totals is a read
\* followed by a write (UpdateTotals) that other threads can interleave with.
AttemptSucceeds(d) ==
    /\ main_pc = "running"
    /\ task_pc[d] = "calling"
    /\ LET c == client[d] IN
       IF UseThreads
       THEN /\ reg' = [reg EXCEPT ![d] = [tokens |-> total_tokens[c], cost |-> total_cost[c]]]
            /\ task_pc' = [task_pc EXCEPT ![d] = "updating"]
            /\ UNCHANGED <<semaphore, client, retries, task_result, ocr_done, client_vars>>
       ELSE IF c = "mistral"
       THEN /\ total_cost' = [total_cost EXCEPT ![c] = @ + OcrCost(d)]
            /\ usage_history' =
                 [usage_history EXCEPT ![c] = Recorded(@, usage_record(0, OcrCost(d), retries[d]))]
            /\ ocr_done' = ocr_done \cup {d}
            /\ semaphore' = Released(c)
            /\ client' = [client EXCEPT ![d] = "gemini"]
            /\ retries' = [retries EXCEPT ![d] = 0]
            /\ task_pc' = [task_pc EXCEPT ![d] = IF UseAsync THEN "waiting" ELSE "calling"]
            /\ api_attempts' = IF UseAsync THEN api_attempts ELSE Issued("gemini")
            /\ UNCHANGED <<reg, task_result, total_tokens>>
       ELSE /\ total_tokens' = [total_tokens EXCEPT ![c] = @ + estimated_total_tokens(d)]
            /\ total_cost' = [total_cost EXCEPT ![c] = @ + CallCost(d)]
            /\ usage_history' =
                 [usage_history EXCEPT
                    ![c] = Recorded(@, usage_record(estimated_total_tokens(d), CallCost(d),
                                                  retries[d]))]
            /\ semaphore' = Released(c)
            /\ \E label \in Classifications :
                 task_result' =
                   [task_result EXCEPT
                      ![d] = TaskResult("response", label, CallCost(d), retries[d], c, "calling")]
            /\ task_pc' = [task_pc EXCEPT ![d] = "done"]
            /\ UNCHANGED <<client, retries, reg, ocr_done, api_attempts>>
    /\ UNCHANGED <<tool_vars, config_vars, main_pc, prompt_template, max_concurrent, driver_vars>>

\* A pool thread writes back the totals it read, appends its usage record and returns.
UpdateTotals(d) ==
    /\ main_pc = "running"
    /\ task_pc[d] = "updating"
    /\ LET c == client[d] IN
       /\ total_tokens' = [total_tokens EXCEPT ![c] = reg[d].tokens + estimated_total_tokens(d)]
       /\ total_cost' = [total_cost EXCEPT ![c] = reg[d].cost + CallCost(d)]
       /\ usage_history' =
            [usage_history EXCEPT
               ![c] = Recorded(@, usage_record(estimated_total_tokens(d), CallCost(d), retries[d]))]
       /\ \E label \in Classifications :
            task_result' =
              [task_result EXCEPT
                 ![d] = TaskResult("response", label, CallCost(d), retries[d], c, "calling")]
    /\ task_pc' = [task_pc EXCEPT ![d] = "done"]
    /\ UNCHANGED <<tool_vars, config_vars, main_pc, prompt_template, max_concurrent, semaphore, client,
                   retries, reg, ocr_done, api_attempts, driver_vars>>

\* The provider attempt fails (exception, timeout, non-200 status).
\* Azure, Gemini, Mistral: the last allowed attempt returns an error result with
\* cost 0, any earlier one is retried after a sleep. The parallel client retries at
\* once and re-raises the exception when the retries are used up.
AttemptFails(d) ==
    /\ main_pc = "running"
    /\ task_pc[d] = "calling"
    /\ LET c == client[d] IN
       IF script = "parallel"
       THEN /\ retries' = [retries EXCEPT ![d] = @ + 1]
            /\ IF RaisesAfterIncrement(retries[d], max_retries)
               THEN /\ semaphore' = Released(c)
                    /\ task_result' =
                         [task_result EXCEPT
                            ![d] = TaskResult("raised", NoClassification, 0, retries[d] + 1,
                                              c, "calling")]
                    /\ task_pc' = [task_pc EXCEPT ![d] = "done"]
                    /\ UNCHANGED api_attempts
               ELSE /\ api_attempts' = Issued(c)
                    /\ UNCHANGED <<semaphore, task_result, task_pc>>
       ELSE IF RetriesExhausted(retries[d], max_retries)
       THEN /\ semaphore' = Released(c)
            /\ task_result' =
                 [task_result EXCEPT
                    ![d] = TaskResult("error", NoClassification, 0, retries[d], c, "calling")]
            /\ task_pc' = [task_pc EXCEPT ![d] = "done"]
            /\ UNCHANGED <<retries, api_attempts>>
       ELSE /\ retries' = [retries EXCEPT ![d] = @ + 1]
            /\ task_pc' = [task_pc EXCEPT ![d] = "sleeping"]
            /\ semaphore' = DuringBackoff(c)
            /\ UNCHANGED <<task_result, api_attempts>>
    /\ UNCHANGED <<tool_vars, config_vars, main_pc, prompt_template, max_concurrent, client, reg,
                   ocr_done, usage_history, total_tokens, total_cost, driver_vars>>

\* The sleep before a retry is over: the next provider attempt is issued.
WakeUp(d) ==
    /\ main_pc = "running"
    /\ task_pc[d] = "sleeping"
    /\ task_pc' = [task_pc EXCEPT ![d] = "calling"]
    /\ api_attempts' = Issued(client[d])
    /\ UNCHANGED <<tool_vars, config_vars, main_pc, prompt_template, max_concurrent, semaphore, client,
                   retries, reg, task_result, ocr_done, usage_history, total_tokens,
                   total_cost, driver_vars>>

\* ------------------------------------------------------------ cancellation
\* The operator interrupts an asyncio run: asyncio.run cancels every unfinished task.
Interrupt ==
    /\ main_pc = "running"
    /\ UseAsync
    /\ main_pc' = "interrupted"
    /\ UNCHANGED <<tool_vars, config_vars, prompt_template, max_concurrent, semaphore, task_pc, client,
                   retries, reg, task_result, ocr_done, client_vars, driver_vars>>

\* CancelledError reaches task d at its await; it is no Exception, so the retry
\* loop does not catch it, and `async with` gives the permit back on the way out.
Cancelled(d) ==
    /\ main_pc = "interrupted"
    /\ ~Ended(d)
    /\ semaphore' = IF d \in Holders(client[d]) THEN Released(client[d]) ELSE semaphore
    /\ task_pc' = [task_pc EXCEPT ![d] = "cancelled"]
    /\ task_result' =
         [task_result EXCEPT
            ![d] = TaskResult("cancelled", NoClassification, 0, retries[d], client[d],
                              task_pc[d])]
    /\ UNCHANGED <<tool_vars, config_vars, main_pc, prompt_template, max_concurrent, client, retries,
                   reg, ocr_done, client_vars, driver_vars>>

\* --------------------------------------------------------------- the driver
\* Each task is awaited (or its future taken) once: d joins the documents done with.
NotIntegrated(d) == collected
Integrated(d) == collected \cup {d}
\* The driver integrates the outcome of document d: in document order when it
\* awaits the tasks one by one or runs them itself, in completion order with
\* as_completed over the thread pool.
Collect(d) ==
    /\ main_pc = "running"
    /\ task_pc[d] = "done"
    /\ d \notin collected
    /\ ~UseThreads => \A e \in Docs : e < d => e \in collected
    /\ collected' = Integrated(d)
    /\ LET r == task_result[d]
           entry == ResultEntry(d, r.classification, r.retries, r.cost, FALSE)
       IN
       IF script = "azure"
       THEN /\ results' = IF r.kind = "response" THEN Append(results, entry) ELSE results
            /\ successful_calls' =
                 IF r.kind = "response" /\ Truthy(r.classification)
                 THEN successful_calls + 1 ELSE successful_calls
            /\ failed_calls' =
                 IF r.kind = "response" /\ Truthy(r.classification)
                 THEN failed_calls ELSE failed_calls + 1
       ELSE IF script = "gemini"
       THEN IF r.kind = "response" /\ Truthy(r.classification)
            THEN /\ results' = Append(results, entry)
                 /\ successful_calls' = successful_calls + 1
                 /\ UNCHANGED failed_calls
            ELSE /\ failed_calls' = failed_calls + 1
                 /\ UNCHANGED <<results, successful_calls>>
       ELSE IF script = "combined"
       THEN IF r.kind = "response"
            THEN /\ results' = Append(results, entry)
                 /\ UNCHANGED <<successful_calls, failed_calls>>
            ELSE /\ failed_calls' = failed_calls + 1
                 /\ UNCHANGED <<results, successful_calls>>
       ELSE /\ results' =
                 Append(results,
                        IF r.kind = "response" THEN entry
                        ELSE ResultEntry(d, NoClassification, 0, 0, TRUE))
            /\ UNCHANGED <<successful_calls, failed_calls>>
    /\ UNCHANGED <<tool_vars, config_vars, main_pc, prompt_template, max_concurrent, semaphore, task_pc,
                   client, retries, reg, task_result, ocr_done, client_vars, summary>>

PercentageOverSuccesses(n, d) == IF n > 0 THEN Ratio(n * 100, n) ELSE Zero
Percentage(n, d) == IF d > 0 THEN Ratio(n * 100, d) ELSE Zero

\* After the last document: accuracy, completion percentage and the summary.
Summarize ==
    /\ main_pc = "running"
    /\ collected = Docs
    /\ IF script = "parallel"
       THEN IF parallel_raises(results)
            THEN /\ main_pc' = "crashed"
                 /\ UNCHANGED <<summary, successful_calls>>
            ELSE /\ main_pc' = "summary"
                 /\ summary' =
                      [accuracy |-> parallel_calculate_accuracy(results).accuracy,
                       correct_count |-> parallel_calculate_accuracy(results).correct_count,
                       total_count |-> parallel_calculate_accuracy(results).total_count,
                       completion_percentage |-> Percentage(Len(results), rows),
                       successful_calls |-> Len(results),
                       failed_calls |-> 0,
                       produced |-> TRUE]
                 /\ UNCHANGED successful_calls
       ELSE /\ main_pc' = "summary"
            /\ successful_calls' =
                 IF script = "combined" THEN Len(results) ELSE successful_calls
            /\ summary' =
                 [accuracy |-> calculate_accuracy(results).accuracy,
                  correct_count |-> calculate_accuracy(results).correct_count,
                  total_count |-> calculate_accuracy(results).total_count,
                  completion_percentage |->
                      IF script = "combined"
                      THEN Percentage(Len(results), rows)
                      ELSE Percentage(successful_calls, successful_calls + failed_calls),
                  successful_calls |->
                      IF script = "combined" THEN Len(results) ELSE successful_calls,
                  failed_calls |-> failed_calls,
                  produced |-> TRUE]
    /\ UNCHANGED <<tool_vars, config_vars, prompt_template, max_concurrent, semaphore, task_pc, client,
                   retries, reg, task_result, ocr_done, client_vars, collected, results,
                   failed_calls>>

Next ==
    \/ LoadConfiguration
    \/ \E d \in Docs : StartTask(d)
    \/ \E d \in Docs : Acquire(d)
    \/ \E d \in Docs : AttemptSucceeds(d)
    \/ \E d \in Docs : UpdateTotals(d)
    \/ \E d \in Docs : AttemptFails(d)
    \/ \E d \in Docs : WakeUp(d)
    \/ Interrupt
    \/ \E d \in Docs : Cancelled(d)
    \/ \E d \in Docs : Collect(d)
    \/ Summarize

Spec == Init /\ [][Next]_vars

\* ================================================================ properties
\* No worker is between taking up a document and returning from its client call.
Quiescent == \A d \in Docs : ~Running(d)
\* Provider attempts of client c that were answered.
Successes(c) ==
    IF c = "mistral" THEN Cardinality(ocr_done)
    ELSE Cardinality({d \in Docs : task_result[d].kind = "response" /\ task_result[d].client = c})
\* Client calls whose every attempt failed.
Exhausted(d) ==
    /\ task_pc[d] = "done"
    /\ task_result[d].at = "calling"
    /\ task_result[d].kind # "response"

\* C1: in a parallel (asyncio) run, under every interleaving of the tasks, the
\* number of tasks that are inside a provider call of one client at the same time
\* never exceeds that client's max_concurrent.
C1_InFlightBounded ==
    UseAsync => \A c \in Clients : Cardinality(InFlight(c)) <= max_concurrent[c]
\* A client with all its permits in use while another task waits for one.
C1_Witness ==
    /\ UseAsync
    /\ \E c \in Clients :
         /\ max_concurrent[c] > 0
         /\ Cardinality(InFlight(c)) = max_concurrent[c]
         /\ \E d \in Docs : task_pc[d] = "waiting" /\ client[d] = c

\* C2: every call of an asynchronous client holds exactly one permit from before
\* its first provider attempt until the call ends, by success, failure or
\* cancellation; once every task has ended, each semaphore has max_concurrent free
\* permits again.
C2_PermitsReturned ==
    (UseAsync /\ main_pc # "config") =>
        /\ \A c \in Clients : semaphore[c] + Cardinality(Holders(c)) = max_concurrent[c]
        /\ \A d \in Docs : task_pc[d] = "calling" => d \in Holders(client[d])
        /\ (\A d \in Docs : Ended(d)) => semaphore = max_concurrent
\* All tasks have ended: one was cancelled inside its provider call, one ended by
\* failure, and a provider attempt had succeeded before.
C2_Witness ==
    /\ UseAsync
    /\ \A d \in Docs : Ended(d)
    /\ semaphore = max_concurrent
    /\ \E d \in Docs : task_result[d].kind = "cancelled" /\ task_result[d].at = "calling"
    /\ \E d \in Docs : task_result[d].kind \in {"error", "raised"} /\ task_result[d].at = "calling"
    /\ \E c \in Clients : Len(usage_history[c]) > 0

\* C3: whatever the sequence of provider successes and failures, the retry count
\* carried by a result that a client call returns is at most the max_retries the
\* call was given.
C3_RetryCountBounded ==
    \A d \in Docs :
        task_result[d].kind \in {"response", "error"} => task_result[d].retries <= max_retries
\* A call returned its error result after using up all of a positive number of retries.
C3_Witness ==
    \E d \in Docs :
        /\ max_retries > 0
        /\ task_result[d].kind = "error"
        /\ task_result[d].retries = max_retries

\* C4: a client call whose every attempt failed returns a result carrying the
\* error and a cost of zero, and does not raise to its caller.
C4_ExhaustedReturnsError ==
    \A d \in Docs :
        Exhausted(d) => task_result[d].kind = "error" /\ task_result[d].cost = 0

\* C5 (as stated): with no call in progress, the usage history of a client holds
\* one record per provider attempt made, failed attempts included.
C5_OneRecordPerAttempt ==
    Quiescent => \A c \in Clients : Len(usage_history[c]) = api_attempts[c]
\* C5 (amended): with no call in progress, the usage history of a client holds
\* exactly one record per answered provider attempt; a failed attempt adds none.
C5_OneRecordPerSuccess ==
    Quiescent =>
        \A c \in Clients :
            /\ Len(usage_history[c]) = Successes(c)
            /\ Len(usage_history[c]) <= api_attempts[c]
\* A client that made more attempts than it has records: some failed, some answered.
C5_Witness ==
    /\ Quiescent
    /\ main_pc = "running"
    /\ \E c \in Clients :
         /\ Len(usage_history[c]) > 0
         /\ api_attempts[c] > Len(usage_history[c])

\* C6: in a run with concurrency greater than 1, once every document has finished
\* and under every interleaving of the workers, total_tokens of a client equals the
\* sum of the tokens of its usage records, and it has one record per answered
\* provider call (no update is lost).
C6_NoLostUpdate ==
    (concurrency > 1 /\ main_pc = "running" /\ \A d \in Docs : task_pc[d] = "done") =>
        \A c \in Clients :
            /\ total_tokens[c] = SumTokens(usage_history[c])
            /\ Len(usage_history[c]) = Successes(c)

\* C7: the accuracy that calculate_accuracy returns lies between 0 and 1
\* (correct_count never exceeds total_count) and is 0 when total_count is 0.
C7_AccuracyInUnitInterval ==
    summary.produced =>
        /\ summary.accuracy.den > 0
        /\ 0 <= summary.accuracy.num
        /\ summary.accuracy.num <= summary.accuracy.den
        /\ summary.correct_count <= summary.total_count
        /\ summary.total_count = 0 => summary.accuracy.num = 0

\* C8: total_count counts exactly the documents with a predicted label and a known
\* expected label; a document without a prediction is left out of total_count and
\* is counted as a failed call in the completion statistics.
C8_UnpredictedCountedAsFailed ==
    (summary.produced /\ script # "parallel") =>
        /\ summary.total_count =
             Cardinality({d \in Docs : Truthy(task_result[d].classification)})
        /\ summary.failed_calls =
             Cardinality({d \in Docs : ~Truthy(task_result[d].classification)})

\* C9: a run whose documents have all been processed ends in its final summary,
\* also when some or all of them failed; with every document failed the summary
\* shows zero accuracy and zero completion.
C9_SummaryAlwaysProduced ==
    (collected = Docs /\ main_pc \notin {"running", "interrupted"}) =>
        /\ main_pc = "summary"
        /\ summary.produced
        /\ (\A d \in Docs : task_result[d].kind # "response") =>
               summary.accuracy.num = 0 /\ summary.completion_percentage.num = 0

\* C10 (as stated): when the API key, the validation file or the prompt template is
\* missing, the run aborts and never issues a provider call.
C10_MissingConfigurationAborts ==
    ~(api_key_set /\ validation_file_exists /\ prompt_template_exists) =>
        /\ main_pc \in {"config", "aborted"}
        /\ \A c \in Clients : api_attempts[c] = 0
\* C10 (amended): a missing API key or validation file aborts every script before
\* any provider call, and so does a missing prompt template in the Azure, Gemini
\* and combined scripts; the parallel script goes on with its built-in prompt.
C10_FatalConfigurationAborts ==
    /\ (~api_key_set \/ ~validation_file_exists
            \/ (~prompt_template_exists /\ script # "parallel")) =>
           /\ main_pc \in {"config", "aborted"}
           /\ \A c \in Clients : api_attempts[c] = 0
    /\ (script = "parallel" /\ api_key_set /\ validation_file_exists
            /\ ~prompt_template_exists /\ main_pc # "config") =>
           /\ main_pc # "aborted"
           /\ prompt_template = "default"
\* A run aborted for the validation file alone, without a provider call.
C10_Witness ==
    /\ main_pc = "aborted"
    /\ api_key_set
    /\ prompt_template_exists
    /\ ~validation_file_exists
    /\ \A c \in Clients : api_attempts[c] = 0

\* ============================================== the stand-alone functions
\* No run is in progress: the state of the run model while a function is examined.
RunIdle ==
    /\ rows = NumDocs
    /\ listed = Docs
    /\ ocr_engine = "gemini"
    /\ api_key_set = FALSE
    /\ validation_file_exists = FALSE
    /\ prompt_template_exists = FALSE
    /\ max_retries = DefaultMaxRetries
    /\ concurrency = 1
    /\ main_pc = "idle"
    /\ prompt_template = "unset"
    /\ max_concurrent = [c \in Clients |-> 0]
    /\ semaphore = [c \in Clients |-> 0]
    /\ task_pc = [d \in AllDocs |-> "created"]
    /\ client = [d \in AllDocs |-> "gemini"]
    /\ retries = [d \in AllDocs |-> 0]
    /\ reg = [d \in AllDocs |-> [tokens |-> 0, cost |-> 0]]
    /\ task_result = [d \in AllDocs |-> Pending]
    /\ ocr_done = {}
    /\ api_attempts = [c \in Clients |-> 0]
    /\ usage_history = [c \in Clients |-> <<>>]
    /\ total_tokens = [c \in Clients |-> 0]
    /\ total_cost = [c \in Clients |-> 0]
    /\ collected = {}
    /\ results = <<>>
    /\ successful_calls = 0
    /\ failed_calls = 0
    /\ summary = NoSummary
run_vars ==
    <<rows, listed, ocr_engine, api_key_set, validation_file_exists, prompt_template_exists, max_retries,
      concurrency, main_pc, prompt_template, max_concurrent, semaphore, task_pc, client,
      retries, reg, task_result, ocr_done, client_vars, driver_vars>>

\* ---- label extraction: every script's extraction applied to every response text
ExtractInit ==
    /\ script \in Scripts
    /\ RunIdle
    /\ response_text \in Texts
    /\ final_class = NotExtracted
    /\ AggregateIdle
    /\ RenderIdle
    /\ RetryIdle
ExtractLabel ==
    /\ final_class = NotExtracted
    /\ final_class' = extract_classification(response_text)
    /\ UNCHANGED <<script, run_vars, response_text, aggregate_vars, render_vars, retry_vars>>
ExtractNext == ExtractLabel
SpecExtract == ExtractInit /\ [][ExtractNext]_vars

\* C11: for every response text that holds the marker "Final Classification:", the
\* extracted label is the text after the first marker up to the end of that line,
\* trimmed.
C11_LabelIsRestOfMarkerLine ==
    (final_class # NotExtracted /\ Contains(response_text, "M")) =>
        final_class =
            Label(strip(SplitFirst(SubSeq(response_text, IndexOf(response_text, "M") + 1,
                                          Len(response_text)), "NL")))

AggregateInit ==
    /\ script = "gemini"
    /\ RunIdle
    /\ ExtractIdle
    /\ RenderIdle
    /\ RetryIdle
    /\ aggregator \in {"run_tests", "aggregate_flash_lite"}
    /\ result_files \in UNION {[1..n -> ResultFiles] : n \in 0..MaxRuns}
    \* aggregate_flash_lite names its result files in the code: the list is not empty
    /\ aggregator = "aggregate_flash_lite" => result_files # <<>>
    /\ all_runs = <<>>
    /\ aggregated_results = NotCalled
    /\ previous_results = NotCalled
    /\ calls = 0
\* One call of aggregate_results(); run_tests returns at once when glob finds no file.
aggregate_results ==
    /\ calls < 2
    /\ calls' = calls + 1
    /\ previous_results' = aggregated_results
    /\ IF aggregator = "run_tests" /\ result_files = <<>>
       THEN /\ aggregated_results' = NoAggregate
            /\ UNCHANGED all_runs
       ELSE /\ all_runs' = Loaded(FreshList(all_runs), result_files)
            /\ aggregated_results' = Aggregated(all_runs')
    /\ UNCHANGED <<script, run_vars, extract_vars, render_vars, retry_vars, aggregator,
                   result_files>>
AggregateNext == aggregate_results
SpecAggregate == AggregateInit /\ [][AggregateNext]_vars

\* C13: for every filename, most_common_prediction is a label with the highest
\* count among the file's predictions across the runs, and consistency_percentage
\* is that count divided by the number of runs recorded for the file, times 100.
C13_MostCommonAndConsistency ==
    aggregated_results.returned = "aggregated_results" =>
        \A f \in Files :
            LET preds == [i \in {j \in 1..Len(all_runs) : f \in DOMAIN all_runs[j].detailed_results}
                            |-> all_runs[i].detailed_results[f]]
                n(p) == Cardinality({i \in DOMAIN preds : preds[i] = p})
            IN IF DOMAIN preds = {}
               THEN f \notin DOMAIN aggregated_results.by_file
               ELSE /\ f \in DOMAIN aggregated_results.by_file
                    /\ LET r == aggregated_results.by_file[f]
                       IN /\ \A p \in Predictions : n(p) <= n(r.most_common_prediction)
                          /\ r.consistency_percentage =
                               [num |-> n(r.most_common_prediction) * 100,
                                den |-> Cardinality(DOMAIN preds)]
\* Three runs predicted B, A, A for a file: A is reported with 200/3 = 66.7 percent.
C13_Witness ==
    /\ aggregated_results.returned = "aggregated_results"
    /\ \E f \in Files :
         /\ ByFile(all_runs, f) = <<"B", "A", "A">>
         /\ aggregated_results.by_file[f].most_common_prediction = "A"
         /\ aggregated_results.by_file[f].consistency_percentage = [num |-> 200, den |-> 3]

\* C14 (as stated): aggregating an empty run set (no result file found or loaded)
\* yields averages of 0 for accuracy, completion, response time, cost and tokens.
C14_EmptyRunSetAveragesZero ==
    (calls > 0 /\ \A i \in 1..Len(result_files) : ~result_files[i].loads) =>
        /\ aggregated_results.returned = "aggregated_results"
        /\ aggregated_results.average_accuracy.num = 0
        /\ aggregated_results.average_completion_percentage.num = 0
        /\ aggregated_results.average_response_time.num = 0
        /\ aggregated_results.average_cost_per_run.num = 0
        /\ aggregated_results.average_tokens_per_run.num = 0
\* C14 (amended): when no result file loads, the aggregation reports 0 runs and
\* averages of 0 and ends without an error; when run_tests finds no result file at
\* all it returns without producing an aggregate.
C14_NothingLoaded ==
    (calls > 0 /\ \A i \in 1..Len(result_files) : ~result_files[i].loads) =>
        IF aggregator = "run_tests" /\ result_files = <<>>
        THEN aggregated_results = [returned |-> "None"]
        ELSE /\ aggregated_results.returned = "aggregated_results"
             /\ aggregated_results.num_runs = 0
             /\ \A field \in {"average_accuracy", "average_completion_percentage",
                              "average_response_time", "average_cost_per_run",
                              "average_tokens_per_run"} :
                    aggregated_results[field] = [num |-> 0, den |-> 1]
             /\ aggregated_results.total_cost_all_runs = 0
             /\ aggregated_results.total_tokens_all_runs = 0
\* Result files were found but none of them loaded.
C14_Witness ==
    /\ calls > 0
    /\ result_files # <<>>
    /\ \A i \in 1..Len(result_files) : ~result_files[i].loads
    /\ aggregated_results.returned = "aggregated_results"
    /\ aggregated_results.num_runs = 0

RenderInit ==
    /\ script \in Scripts
    /\ RunIdle
    /\ ExtractIdle
    /\ AggregateIdle
    /\ RetryIdle
    /\ pdf \in Pdfs
    /\ max_pages \in 0..MaxPages
    /\ rendered = NotRendered
Render ==
    /\ rendered = NotRendered
    /\ rendered' = convert_pdf_pages_to_images(pdf, max_pages)
    /\ UNCHANGED <<script, run_vars, extract_vars, aggregate_vars, retry_vars, pdf, max_pages>>
RenderNext == Render
SpecRender == RenderInit /\ [][RenderNext]_vars

\* The first n pages, in page order.
PageOrder(n) == [i \in 1..n |-> i]
AllRender(doc, n) == \A i \in 1..n : doc.renders[i]

\* C16: for every readable, unencrypted PDF and every max_pages the renderer returns
\* exactly min(total_pages, max_pages) images, in page order.
C16_ExactlyMinPages ==
    (rendered # NotRendered /\ pdf.opens /\ ~pdf.is_encrypted)
        => rendered = Returned(PageOrder(Min(pdf.total_pages, max_pages)))
\* C16 as the renderers implement it: for an unencrypted PDF that opens, the images
\* are those of the first min(total_pages, max_pages) pages in page order when
\* max_pages >= 1 and each of these pages renders; Azure, Gemini and combined leave
\* out a page that fails to render, the parallel renderer raises on one and reads
\* max_pages = 0 as no limit.
C16_MinPagesThatRender ==
    (rendered # NotRendered /\ pdf.opens /\ ~pdf.is_encrypted) =>
        LET m == Min(pdf.total_pages, max_pages)
            n == IF script = "parallel" /\ max_pages = 0 THEN pdf.total_pages ELSE m
        IN  /\ (max_pages >= 1 /\ AllRender(pdf, m)) => rendered = Returned(PageOrder(m))
            /\ script # "parallel" =>
                   /\ rendered.kind = "returned"
                   /\ Len(rendered.images) <= m
                   /\ \A i \in 1..m : pdf.renders[i] <=> \E k \in 1..Len(rendered.images) : rendered.images[k] = i
                   /\ \A j, k \in 1..Len(rendered.images) : j < k => rendered.images[j] < rendered.images[k]
            /\ script = "parallel" =>
                   IF AllRender(pdf, n) THEN rendered = Returned(PageOrder(n)) ELSE rendered = Raised
C16_Witness ==
    /\ pdf.opens /\ ~pdf.is_encrypted
    /\ pdf.total_pages = 3 /\ max_pages = 2
    /\ rendered = Returned(<<1, 2>>)

\* C17: for an encrypted or unreadable PDF the renderer returns an empty sequence
\* instead of failing.
C17_UnreadableYieldsEmpty ==
    (rendered # NotRendered /\ (~pdf.opens \/ pdf.is_encrypted)) => rendered = Returned(<<>>)

\* The documents that were answered with a label the accuracy counts, and those of
\* them whose label is the expected one: sets, so free of any order.
Counted ==
    {d \in Docs : /\ task_result[d].kind = "response"
                  /\ (script = "parallel" \/ Truthy(task_result[d].classification))}
Correct == {d \in Counted : task_result[d].classification = expected(d)}
Reordered(rs) ==
    {[i \in 1..Len(rs) |-> rs[p[i]]] :
        p \in {q \in [1..Len(rs) -> 1..Len(rs)] : \A i, j \in 1..Len(rs) : q[i] = q[j] => i = j}}

\* C18: accuracy, correct_count and total_count of a run do not depend on the order
\* in which the tasks completed nor on the order of the result list: they are the
\* counts over the set of answered documents, each matched to the expected label of
\* its own identifier.
C18_AccuracyOrderIndependent ==
    summary.produced =>
        /\ summary.total_count = Cardinality(Counted)
        /\ summary.correct_count = Cardinality(Correct)
        /\ summary.accuracy =
             IF Counted = {} THEN Zero
             ELSE Ratio(Cardinality(Correct) * (IF script = "parallel" THEN 100 ELSE 1),
                        Cardinality(Counted))
        /\ \A rs \in Reordered(results) :
             IF script = "parallel"
             THEN parallel_calculate_accuracy(rs) = parallel_calculate_accuracy(results)
             ELSE calculate_accuracy(rs) = calculate_accuracy(results)
C18_Witness ==
    /\ summary.produced
    /\ UseThreads
    /\ Len(results) = 2
    /\ results[1].file = 2 /\ results[2].file = 1
    /\ summary.total_count = 2 /\ summary.correct_count = 1

\* The detailed results the run writes to its results file: the file is written
\* once, after the summary is computed.
Output == IF summary.produced THEN results ELSE <<>>

\* C19: when the operator interrupts a run while tasks are in flight, the results of
\* the documents already answered are in the run's output.
C19_InterruptKeepsCompleted ==
    main_pc = "interrupted" =>
        \A d \in Docs :
            (task_result[d].kind = "response" /\ Truthy(task_result[d].classification))
                => \E i \in 1..Len(Output) : Output[i].file = d

\* The collected documents the driver counts as successful: Azure and Gemini want a
\* label, the combined script takes every answered document.
CountedSuccessful ==
    {d \in collected :
        /\ task_result[d].kind = "response"
        /\ (script = "combined" \/ Truthy(task_result[d].classification))}

\* C20: in the Azure, Gemini and combined scripts every document attempted is
\* counted in exactly one of successful_calls and failed_calls, so at the end of the
\* run their sum is the number of documents, and the completion percentage is
\* successful_calls over that sum (0 when the sum is 0).
C20_CallsPartitionDocuments ==
    script # "parallel" =>
        /\ failed_calls = Cardinality(collected \ CountedSuccessful)
        /\ (script = "combined" /\ main_pc = "running")
               => Len(results) = Cardinality(CountedSuccessful)
        /\ (script # "combined" \/ summary.produced)
               => successful_calls = Cardinality(CountedSuccessful)
        /\ summary.produced =>
               /\ summary.successful_calls = Cardinality(CountedSuccessful)
               /\ summary.failed_calls = Cardinality(Docs \ CountedSuccessful)
               /\ summary.successful_calls + summary.failed_calls = rows
               /\ summary.completion_percentage =
                      Ratio(summary.successful_calls * 100,
                            summary.successful_calls + summary.failed_calls)
        /\ Percentage(0, 0) = Zero
C20_Witness ==
    /\ summary.produced
    /\ script = "gemini"
    /\ summary.successful_calls = 1
    /\ summary.failed_calls = 1
    /\ summary.completion_percentage = Ratio(100, 2)

\* Positions of the result list that belong to document d.
EntriesOf(d) == {i \in 1..Len(results) : results[i].file = d}
\* Document d was counted as a failure by the awaiting loop of the combined script.
CountedFailed(d) == script = "combined" /\ d \in collected /\ task_result[d].kind # "response"

\* C21: in an asynchronous run every scheduled document yields exactly one outcome,
\* a result entry or one failure count, never two and, once the driver has awaited
\* its task, never none, under every interleaving of the tasks.
C21_ExactlyOneOutcome ==
    UseAsync =>
        /\ \A d \in Docs :
             /\ Cardinality(EntriesOf(d)) <= 1
             /\ d \notin collected => EntriesOf(d) = {}
             /\ d \in collected => (EntriesOf(d) # {}) # CountedFailed(d)
        /\ Len(results) + failed_calls = Cardinality(collected)
        /\ main_pc \in {"summary", "crashed"} => collected = Docs
C21_Witness ==
    /\ UseAsync
    /\ main_pc = "summary"
    /\ Len(results) = 1
    /\ failed_calls = 1

\* Provider attempts of the call that document d has open or ended without an
\* answer: `retries` failed ones, and one more unless the call sleeps before a retry
\* or the parallel client has just raised.
UnansweredAttempts(d) ==
    IF task_pc[d] \in {"calling", "updating"} THEN retries[d] + 1
    ELSE IF task_pc[d] = "sleeping" THEN retries[d]
    ELSE IF task_pc[d] \in {"done", "cancelled"} /\ task_result[d].kind # "response"
    THEN (IF task_result[d].at = "calling"
          THEN (IF task_result[d].kind = "raised"
                THEN task_result[d].retries ELSE task_result[d].retries + 1)
          ELSE IF task_result[d].at = "sleeping" THEN task_result[d].retries
          ELSE 0)
    ELSE 0
\* Provider attempts of the answered calls of client c: `retries` + 1 per usage record.
RECURSIVE AnsweredAttempts(_)
AnsweredAttempts(history) ==
    IF history = <<>> THEN 0
    ELSE Head(history).retries + 1 + AnsweredAttempts(Tail(history))
RECURSIVE OpenAttempts(_, _)
OpenAttempts(c, n) ==
    IF n = 0 THEN 0
    ELSE OpenAttempts(c, n - 1)
         + (IF (IF Ended(n) THEN task_result[n].client ELSE client[n]) = c
            THEN UnansweredAttempts(n) ELSE 0)

\* C22: one client call issues at most max_retries + 1 provider attempts, and a
\* further attempt only after the previous one failed: the attempts a client has
\* issued are, call by call, the failed attempts plus the one in flight or answered.
C22_AttemptsPerCallBounded ==
    /\ \A d \in Docs : UnansweredAttempts(d) <= max_retries + 1
    /\ \A c \in Clients :
         /\ \A i \in 1..Len(usage_history[c]) : usage_history[c][i].retries + 1 <= max_retries + 1
         /\ api_attempts[c] = AnsweredAttempts(usage_history[c]) + OpenAttempts(c, rows)
C22_Witness ==
    \E d \in Docs :
        /\ max_retries = 2
        /\ task_pc[d] = "done"
        /\ task_result[d].kind \in {"error", "raised"}
        /\ api_attempts[task_result[d].client] = 3
        /\ \A e \in Docs \ {d} : task_pc[e] = "created"

\* ----------------------------------------------- specification: retry loop
\* One call of a client method whose provider attempts fail with any error.
RetryInit ==
    /\ script = "combined"
    /\ RunIdle
    /\ ExtractIdle
    /\ AggregateIdle
    /\ RenderIdle
    /\ wrapper \in Wrappers
    /\ attempt_pc = "calling"
    /\ attempt_retries = 0
    /\ errors = <<>>
    /\ waits = <<>>
\* The attempt raises: the call gives up when `retries` has reached max_retries,
\* else it increments `retries` and sleeps.
RetryAttemptFails ==
    /\ attempt_pc = "calling"
    /\ \E error_msg \in ErrorMessages :
         IF wrapper = "parallel"
         THEN /\ attempt_retries' = attempt_retries + 1
              /\ IF RaisesAfterIncrement(attempt_retries, max_retries)
                 THEN attempt_pc' = "raised" /\ UNCHANGED <<errors, waits>>
                 ELSE /\ errors' = Append(errors, error_msg)
                      /\ waits' = Append(waits, wait_time(wrapper, attempt_retries + 1, error_msg))
                      /\ UNCHANGED attempt_pc
         ELSE IF RetriesExhausted(attempt_retries, max_retries)
         THEN attempt_pc' = "returned" /\ UNCHANGED <<attempt_retries, errors, waits>>
         ELSE /\ attempt_retries' = attempt_retries + 1
              /\ errors' = Append(errors, error_msg)
              /\ waits' = Append(waits, wait_time(wrapper, attempt_retries + 1, error_msg))
              /\ attempt_pc' = "sleeping"
    /\ UNCHANGED <<script, run_vars, extract_vars, aggregate_vars, render_vars, wrapper>>
RetryWakeUp ==
    /\ attempt_pc = "sleeping"
    /\ attempt_pc' = "calling"
    /\ UNCHANGED <<script, run_vars, extract_vars, aggregate_vars, render_vars, wrapper,
                   attempt_retries, errors, waits>>
RetryAttemptSucceeds ==
    /\ attempt_pc = "calling"
    /\ attempt_pc' = "returned"
    /\ UNCHANGED <<script, run_vars, extract_vars, aggregate_vars, render_vars, wrapper,
                   attempt_retries, errors, waits>>
RetryNext == RetryAttemptFails \/ RetryWakeUp \/ RetryAttemptSucceeds
SpecRetry == RetryInit /\ [][RetryNext]_vars

\* C23: before retry number i the client waits 2^i seconds when the failed attempt
\* was a rate-limit error (HTTP 429 or a rate-limit message) and 2 seconds otherwise.
C23_BackoffByErrorKind ==
    \A i \in 1..Len(waits) :
        waits[i] = IF errors[i] \in {"429", "Rate limit"} THEN Pow2(i) ELSE 2

\* ------------------------------ specification: parallel run with Mistral OCR
\* The combined script in parallel mode with the Mistral OCR engine, on a dataset
\* with one document more than the concurrency level.
OcrRunInit ==
    /\ script = "combined"
    /\ rows = NumDocs + 1
    /\ listed = Docs
    /\ ocr_engine = "mistral"
    /\ api_key_set = TRUE
    /\ validation_file_exists = TRUE
    /\ prompt_template_exists = TRUE
    /\ max_retries = 1
    /\ concurrency = NumDocs
    /\ main_pc = "config"
    /\ prompt_template = "unset"
    /\ max_concurrent = [c \in Clients |-> 0]
    /\ semaphore = [c \in Clients |-> 0]
    /\ task_pc = [d \in AllDocs |-> "created"]
    /\ client = [d \in AllDocs |-> FirstClient]
    /\ retries = [d \in AllDocs |-> 0]
    /\ reg = [d \in AllDocs |-> [tokens |-> 0, cost |-> 0]]
    /\ task_result = [d \in AllDocs |-> Pending]
    /\ ocr_done = {}
    /\ api_attempts = [c \in Clients |-> 0]
    /\ usage_history = [c \in Clients |-> <<>>]
    /\ total_tokens = [c \in Clients |-> 0]
    /\ total_cost = [c \in Clients |-> 0]
    /\ collected = {}
    /\ results = <<>>
    /\ successful_calls = 0
    /\ failed_calls = 0
    /\ summary = NoSummary
    /\ ToolsIdle
OcrRunNext ==
    \/ LoadConfiguration
    \/ \E d \in Docs : StartTask(d)
    \/ \E d \in Docs : Acquire(d)
    \/ \E d \in Docs : AttemptSucceeds(d)
    \/ \E d \in Docs : AttemptFails(d)
    \/ \E d \in Docs : WakeUp(d)
    \/ Interrupt
    \/ \E d \in Docs : Cancelled(d)
    \/ \E d \in Docs : Collect(d)
    \/ Summarize
SpecOcrRun == OcrRunInit /\ [][OcrRunNext]_vars

\* C24: in a parallel run with the Mistral OCR engine, the provider calls in flight
\* over all tasks, OCR and classification calls together, never exceed the
\* concurrency level chosen for the run.
C24_InFlightWithinConcurrency ==
    (UseAsync /\ ocr_engine = "mistral") =>
        Cardinality(InFlight("mistral") \cup InFlight("gemini")) <= concurrency

\* Position of the first prediction p among preds (the run that put p into the
\* `predictions` dict).
FirstSeen(preds, p) ==
    CHOOSE i \in 1..Len(preds) : preds[i] = p /\ \A j \in 1..(i - 1) : preds[j] # p

\* C25: when two or more labels share the highest count for a filename, the
\* most_common_prediction is the one of them that was encountered first when
\* iterating the runs in load order.
C25_TieGoesToFirstSeen ==
    aggregated_results.returned = "aggregated_results" =>
        \A f \in DOMAIN aggregated_results.by_file :
            LET preds == ByFile(all_runs, f)
                r == aggregated_results.by_file[f].most_common_prediction
            IN \A p \in Predictions \ {r} :
                   (Count(preds, p) > 0 /\ Count(preds, p) = Count(preds, r))
                       => FirstSeen(preds, r) < FirstSeen(preds, p)
C25_Witness ==
    /\ aggregated_results.returned = "aggregated_results"
    /\ \E f \in Files :
         /\ ByFile(all_runs, f) = <<"B", "A">>
         /\ aggregated_results.by_file[f].most_common_prediction = "B"

\* Documents whose task ended without a provider answer (file missing, not a PDF,
\* unreadable, provider failure after the retries).
FailedDocs == {d \in Docs : task_pc[d] = "done" /\ task_result[d].kind # "response"}

\* C26: the failure of one document marks only that document failed and keeps it
\* out of the accuracy denominator; every other document is still processed and the
\* run goes on to its summary.
C26_FailureIsLocal ==
    FailedDocs # {} =>
        /\ main_pc # "crashed"
        /\ (collected = Docs /\ main_pc \notin {"running", "interrupted"}) => main_pc = "summary"
        /\ summary.produced =>
               /\ summary.total_count <= Cardinality(Docs \ FailedDocs)
               /\ \A d \in Docs \ FailedDocs : task_result[d].kind = "response"

\* ------------------------------------------------- specification: progress
\* Every step the program itself takes: a provider call returns or raises, a sleep
\* ends, the event loop resumes a task that can go on. The operator's interrupt is
\* not among them.
Progress ==
    \/ LoadConfiguration
    \/ \E d \in Docs : StartTask(d)
    \/ \E d \in Docs : Acquire(d)
    \/ \E d \in Docs : AttemptSucceeds(d)
    \/ \E d \in Docs : UpdateTotals(d)
    \/ \E d \in Docs : AttemptFails(d)
    \/ \E d \in Docs : WakeUp(d)
    \/ \E d \in Docs : Cancelled(d)
    \/ \E d \in Docs : Collect(d)
    \/ Summarize
SpecLive == Init /\ [][Next]_vars /\ WF_vars(Progress)

Usage(c) == <<usage_history[c], total_tokens[c], total_cost[c]>>
\* One answered attempt was booked on client c: one record appended, its tokens and
\* its cost added to the totals.
BookedOnce(c) ==
    /\ Len(usage_history'[c]) = Len(usage_history[c]) + 1
    /\ SubSeq(usage_history'[c], 1, Len(usage_history[c])) = usage_history[c]
    /\ LET record == usage_history'[c][Len(usage_history'[c])]
       IN /\ total_tokens'[c] = total_tokens[c] + record.total_tokens
          /\ total_cost'[c] = total_cost[c] + record.cost

\* C28: a provider attempt that fails leaves total_cost, total_tokens and
\* usage_history of the client unchanged; only an answered attempt changes them, and
\* each answered attempt adds exactly its own tokens and cost once.
C28_OnlySuccessChangesUsage ==
    [][/\ (\E d \in Docs : AttemptFails(d)) => \A c \in Clients : Usage(c)' = Usage(c)
       /\ \A c \in Clients : Usage(c)' = Usage(c) \/ BookedOnce(c)]_vars

\* Task d is inside one and the same call of client c before and after the step.
StaysInCall(d, c) == d \in Holders(c) /\ d \in Holders(c)'

\* C29: a call of an asynchronous client keeps its one permit from before its first
\* attempt until it returns, also while it sleeps before a retry; a permit becomes
\* free only when a holder's call has ended, and a waiting task enters only by
\* taking a free permit.
C29_PermitKeptAcrossRetries ==
    [][(UseAsync /\ main_pc # "config") =>
        \A c \in Clients :
            /\ (\A d \in Holders(c) : StaysInCall(d, c)) => semaphore'[c] <= semaphore[c]
            /\ semaphore'[c] > semaphore[c] =>
                   /\ semaphore'[c] = semaphore[c] + 1
                   /\ \E d \in Holders(c) :
                          /\ d \notin Holders(c)'
                          /\ Ended(d)' \/ client'[d] # c
            /\ \A d \in Docs :
                   (task_pc[d] = "waiting" /\ client[d] = c /\ task_pc'[d] = "calling") =>
                       /\ Cardinality(Holders(c)) < max_concurrent[c]
                       /\ semaphore'[c] = semaphore[c] - 1
            /\ semaphore'[c] + Cardinality(Holders(c)') = max_concurrent'[c]]_vars
\* A call sleeps before its retry with every permit taken, while another task waits.
C29_Witness ==
    /\ UseAsync
    /\ \E c \in Clients :
         /\ semaphore[c] = 0
         /\ \E d \in Holders(c) : task_pc[d] = "sleeping"
         /\ \E e \in Docs : task_pc[e] = "waiting" /\ client[e] = c

\* C30: in the parallel script a document whose file name has no entry in the
\* validation data is never counted as a correct classification, whatever label is
\* extracted from the response.
C30_UnlistedNeverCorrect ==
    (script = "parallel" /\ summary.produced) =>
        summary.correct_count =
            Cardinality({d \in listed : task_result[d].classification = validation_data[d]})

====
